---- MODULE Spec2Model ----
(***************************************************************************)
(* A model of parser.py, the syntax frontend of pythological: the term     *)
(* and goal constructors, the predicate database (collect_rules),          *)
(* the query executor (Program.ask) and the printer (unparse), together    *)
(* with the term grammar they are used with.                               *)
(*                                                                         *)
(* Python values are modelled as tagged pairs:                             *)
(*   <<"int", n>>       an int                                             *)
(*   <<"str", chars>>   a str, chars a sequence of one-character strings   *)
(*   <<"var", id>>      a Var object, id its identity                      *)
(*   <<"rvar", k>>      the name reify gives an unresolved Var (_.k)       *)
(*   <<"tuple", elems>> a tuple; a compound term ('Cons', h, t) is the     *)
(*                      tuple whose first element is the str 'Cons'        *)
(* A closure is modelled by a tagged tuple holding what it captured, and   *)
(* an operator that applies it.                                            *)
(***************************************************************************)
EXTENDS Integers, Sequences, FiniteSets, TLC

VARIABLES program, queries, nextVar, alone, printer

vars == <<program, queries, nextVar, alone, printer>>

-----------------------------------------------------------------------------
(* Python values *)

PyInt(n) == <<"int", n>>
PyStr(chars) == <<"str", chars>>
PyVar(id) == <<"var", id>>
PyTuple(elems) == <<"tuple", elems>>

IsTuple(v) == v[1] = "tuple"
IsVar(v) == v[1] = "var"

ConsSym == <<"C", "o", "n", "s">>
NilSym == <<"N", "i", "l">>
MemberSym == <<"M", "e", "m", "b", "e", "r">>
CommonSym == <<"C", "o", "m", "m", "o", "n">>
UndefSym == <<"U", "n", "d", "e", "f">>

\* a deterministic enumeration of a finite set (the iteration order of a
\* Python set, which no operation here depends on)
RECURSIVE SetToSeq(_)
SetToSeq(S) ==
    IF S = {} THEN << >>
    ELSE LET x == CHOOSE y \in S : TRUE IN <<x>> \o SetToSeq(S \ {x})

-----------------------------------------------------------------------------
(* The goal constructors of the relational engine, as data *)

fail == <<"fail">>
succeed == <<"succeed">>
eq(u, v) == <<"eq", u, v>>
either(g1, g2) == <<"either", g1, g2>>
both(g1, g2) == <<"both", g1, g2>>
delay(thunk) == <<"delay", thunk>>

-----------------------------------------------------------------------------
(* The constructors of parser.py: each returns a pair (fvs, ev) *)

collect(pairs) ==
    [fvs |-> UNION {pairs[i].fvs : i \in DOMAIN pairs},
     ev  |-> <<"all", [i \in DOMAIN pairs |-> pairs[i].ev]>>]

mk_literal(value) == [fvs |-> {}, ev |-> <<"literal", value>>]

mk_anon(name) == [fvs |-> {}, ev |-> <<"anon", name>>]

mk_variable(name) == [fvs |-> {name}, ev |-> <<"variable", name>>]

mk_compound(symbol, terms) ==
    LET c == collect(terms)
    IN  [fvs |-> c.fvs, ev |-> <<"compound", symbol, c.ev>>]

nil == [fvs |-> {}, ev |-> <<"nil">>]

cons(first, rest) ==
    [fvs |-> first.fvs \cup rest.fvs, ev |-> <<"cons", first.ev, rest.ev>>]

\* f(x, z) for the functions foldr is given, named by a string
Apply(f, x, z) ==
    CASE f = "cons"   -> cons(x, z)
      [] f = "both"   -> both(x, z)
      [] f = "either" -> either(x, z)

\* z = f(x, z) for x in reversed(xs)
RECURSIVE foldr(_, _, _)
foldr(f, z, xs) ==
    IF xs = << >> THEN z
    ELSE Apply(f, xs[1], foldr(f, z, Tail(xs)))

Reverse(xs) == [i \in DOMAIN xs |-> xs[Len(xs) + 1 - i]]

mk_list_foldl(terms) == foldr("cons", nil, Reverse(terms))

mk_list(terms) == foldr("cons", nil, terms)

mk_call(symbol, terms) ==
    LET c == collect(terms)
    IN  [fvs |-> c.fvs, ev |-> <<"call", symbol, c.ev>>]

mk_calls(pairs) ==
    LET c == collect(pairs)
    IN  [fvs |-> c.fvs, ev |-> <<"calls", c.ev>>]

mk_predicate(symbol, terms) ==
    LET c == collect(terms)
    IN  [symbol |-> symbol, fvs |-> c.fvs, ev |-> c.ev]

mk_rule(predicate, calls) ==
    [symbol |-> predicate.symbol,
     fvs    |-> predicate.fvs \cup calls.fvs,
     ev     |-> <<"rule", predicate.ev, calls.ev>>]

mk_fact(predicate) == mk_rule(predicate, mk_calls(<< >>))

-----------------------------------------------------------------------------
(* Applying an evaluation function ev(program, args, variables).  Creating *)
(* a Var takes the next identity nv; the result is [val, nv].             *)

\* the body of mk_call's lambda: the call is suspended, the thunk holds what
\* the lambda captured.  site is history only: which call site of which
\* activation the thunk came from; no operation reads it.
ev_mk_call(symbol, ev_terms, args, variables) ==
    delay([symbol |-> symbol, ev_terms |-> ev_terms, args |-> args,
           variables |-> variables, site |-> << >>])

ev_mk_calls_either(goals) == foldr("either", fail, goals)

\* the body of mk_calls' lambda, goals the tuple ev returned
ev_mk_calls(goals) == foldr("both", succeed, goals)

ev_mk_rule_no_head(args, head, body) == body

\* the body of mk_rule's lambda
ev_mk_rule(args, head, body) == both(eq(args, head), body)

RECURSIVE Ev(_, _, _, _)
RECURSIVE EvAll(_, _, _, _)

\* collect's lambda: each ev in order, the values in a tuple
EvAll(evs, args, variables, nv) ==
    IF evs = << >> THEN [val |-> << >>, nv |-> nv]
    ELSE LET first == Ev(evs[1], args, variables, nv)
             rest  == EvAll(Tail(evs), args, variables, first.nv)
         IN  [val |-> <<first.val>> \o rest.val, nv |-> rest.nv]

Ev(e, args, variables, nv) ==
    CASE e[1] = "literal"  -> [val |-> e[2], nv |-> nv]
      [] e[1] = "anon"     -> [val |-> PyVar(nv), nv |-> nv + 1]
      [] e[1] = "variable" -> [val |-> variables[e[2]], nv |-> nv]
      [] e[1] = "all"      ->
            LET r == EvAll(e[2], args, variables, nv)
            IN  [val |-> PyTuple(r.val), nv |-> r.nv]
      [] e[1] = "compound" ->
            LET r == Ev(e[3], args, variables, nv)
            IN  [val |-> PyTuple(<<PyStr(e[2])>> \o r.val[2]), nv |-> r.nv]
      [] e[1] = "nil"      -> [val |-> PyTuple(<<PyStr(NilSym)>>), nv |-> nv]
      [] e[1] = "cons"     ->
            LET first == Ev(e[2], args, variables, nv)
                rest  == Ev(e[3], args, variables, first.nv)
            IN  [val |-> PyTuple(<<PyStr(ConsSym), first.val, rest.val>>),
                 nv  |-> rest.nv]
      [] e[1] = "call"     ->
            [val |-> ev_mk_call(e[2], e[3], args, variables), nv |-> nv]
      [] e[1] = "calls"    ->
            LET r == Ev(e[2], args, variables, nv)
            IN  [val |-> ev_mk_calls(r.val[2]), nv |-> r.nv]
      [] e[1] = "rule"     ->
            LET head == Ev(e[2], args, variables, nv)
                body == Ev(e[3], args, variables, head.nv)
            IN  [val |-> ev_mk_rule(args, head.val, body.val), nv |-> body.nv]

\* {name: Var(name) for name in names}
NewVars(names, nv) ==
    LET order == SetToSeq(names)
    IN  [map |-> [name \in names |->
                    PyVar(nv + (CHOOSE i \in DOMAIN order : order[i] = name) - 1)],
         nv  |-> nv + Cardinality(names)]

-----------------------------------------------------------------------------
(* collect_rules: the program, a map from symbol to function *)

make_function(symbol, pairs) ==
    LET c == collect(pairs)
    IN  [symbol |-> symbol, fvs |-> c.fvs, ev |-> c.ev]

collect_rules(rules_seq) ==
    LET symbols == {rules_seq[i].symbol : i \in DOMAIN rules_seq}
        rules(symbol) == SelectSeq(rules_seq, LAMBDA r : r.symbol = symbol)
    IN  [symbol \in symbols |-> make_function(symbol, rules(symbol))]

\* history only: the call sites of a goal that was just built are numbered
\* in order and marked with the activation and clause that built them
RECURSIVE NDelays(_)
NDelays(g) ==
    CASE g[1] = "delay" -> 1
      [] g[1] \in {"both", "either"} -> NDelays(g[2]) + NDelays(g[3])
      [] OTHER -> 0

RECURSIVE Stamp(_, _, _, _)
Stamp(g, act, clause, idx) ==
    CASE g[1] = "delay" ->
            delay([g[2] EXCEPT !.site = [act |-> act, clause |-> clause, idx |-> idx]])
      [] g[1] \in {"both", "either"} ->
            <<g[1], Stamp(g[2], act, clause, idx),
                    Stamp(g[3], act, clause, idx + NDelays(g[2]))>>
      [] OTHER -> g

\* the function fn made by make_function, called with args: the goal, the
\* next identity, and the environment it made (act numbers the activation)
fn(f, args, nv, act) ==
    LET Return(variables, goals) ==
            [goal      |-> foldr("either", fail,
                                 [c \in DOMAIN goals.val[2] |->
                                     Stamp(goals.val[2][c], act, c, 1)]),
             nv        |-> goals.nv,
             variables |-> variables,
             envs      |-> [c \in DOMAIN goals.val[2] |-> variables]]
        Clauses(made) == Return(made.map, Ev(f.ev, args, made.map, made.nv))
    IN  Clauses(NewVars(f.fvs, nv))

-----------------------------------------------------------------------------
(* The relational engine (module pythological): binding states, unify,     *)
(* reify, and the streams that goals produce.  A binding state is a        *)
(* function from Var identities to values.                                 *)

empty_s == << >>

RECURSIVE walk(_, _)
walk(v, s) ==
    IF IsVar(v) /\ v[2] \in DOMAIN s THEN walk(s[v[2]], s) ELSE v

NoUnifier == [ok |-> FALSE, s |-> empty_s]

RECURSIVE unify(_, _, _)
RECURSIVE UnifyElems(_, _, _)

UnifyElems(us, vs, s) ==
    IF us = << >> THEN [ok |-> TRUE, s |-> s]
    ELSE LET r == unify(us[1], vs[1], s)
         IN  IF r.ok THEN UnifyElems(Tail(us), Tail(vs), r.s) ELSE NoUnifier

unify(u, v, s) ==
    LET u1 == walk(u, s)
        v1 == walk(v, s)
    IN  CASE IsVar(u1) /\ IsVar(v1) /\ u1[2] = v1[2] -> [ok |-> TRUE, s |-> s]
          [] IsVar(u1) /\ ~(IsVar(v1) /\ u1[2] = v1[2]) ->
                [ok |-> TRUE, s |-> (u1[2] :> v1) @@ s]
          [] ~IsVar(u1) /\ IsVar(v1) -> [ok |-> TRUE, s |-> (v1[2] :> u1) @@ s]
          [] ~IsVar(u1) /\ ~IsVar(v1) /\ IsTuple(u1) /\ IsTuple(v1) ->
                IF Len(u1[2]) = Len(v1[2])
                THEN UnifyElems(u1[2], v1[2], s)
                ELSE NoUnifier
          [] OTHER -> IF u1 = v1 THEN [ok |-> TRUE, s |-> s] ELSE NoUnifier

\* the value with every bound Var replaced by what it is bound to
RECURSIVE Resolve(_, _)
Resolve(v, s) ==
    LET w == walk(v, s)
    IN  IF IsTuple(w)
        THEN PyTuple([i \in DOMAIN w[2] |-> Resolve(w[2][i], s)])
        ELSE w

\* the unresolved Vars of a resolved value, in order of first appearance
RECURSIVE FreeVars(_)
RECURSIVE FreeVarsElems(_, _)
FreeVarsElems(elems, seen) ==
    IF elems = << >> THEN seen
    ELSE LET new == FreeVars(elems[1])
         IN  FreeVarsElems(Tail(elems),
                 seen \o SelectSeq(new, LAMBDA id : \A k \in DOMAIN seen : seen[k] # id))

FreeVars(w) ==
    CASE IsVar(w)   -> <<w[2]>>
      [] IsTuple(w) -> FreeVarsElems(w[2], << >>)
      [] OTHER      -> << >>

RECURSIVE Rename(_, _)
Rename(w, order) ==
    CASE IsVar(w)   -> <<"rvar", (CHOOSE k \in DOMAIN order : order[k] = w[2]) - 1>>
      [] IsTuple(w) -> PyTuple([i \in DOMAIN w[2] |-> Rename(w[2][i], order)])
      [] OTHER      -> w

\* reify(value, s): the resolved value, its unresolved Vars named _.0, _.1,
\* ... in order of first appearance in that value
reify(v, s) ==
    LET w == Resolve(v, s)
    IN  Rename(w, FreeVars(w))

-----------------------------------------------------------------------------
(* Streams.  goal(s) is a generator of binding states and of None, the     *)
(* no-result sentinel a suspended call gives before it is resumed.  A      *)
(* generator's state is one of                                             *)
(*   <<"app", goal, s>>     goal(s), not yet advanced                      *)
(*   <<"forced", thunk, s>> a suspended call that has given its None       *)
(*   <<"inter", its>>       the streams of a disjunction, taken in turn    *)
(*   <<"bind", it, goal>>   a conjunction: goal on each state of it        *)
(*   <<"done">>             exhausted                                      *)
(* Pull is one next() on a generator: [out, st, nv, log], out one of       *)
(* <<"state", s>>, <<"none">>, <<"end">> (StopIteration) and               *)
(* <<"error", symbol>> (the KeyError of program[symbol]).  log is history: *)
(* one entry for every time program[symbol] was looked up.                 *)

Done == <<"done">>
None == <<"none">>
End == <<"end">>

LookupEntry(thunk, s, found, args, variables, envs) ==
    [symbol |-> thunk.symbol, found |-> found, args |-> args, s |-> s,
     site |-> thunk.site, variables |-> variables, envs |-> envs]

\* what thunk_call gives when program[symbol] is there: r is what the
\* relation returned for args
Called(args, r) ==
    [found |-> TRUE, goal |-> r.goal, nv |-> r.nv, args |-> args,
     variables |-> r.variables, envs |-> r.envs]

thunk_call_default(thunk, nv, act) ==
    LET Call(a) ==
            Called(a.val,
                   fn(IF thunk.symbol \in DOMAIN program THEN program[thunk.symbol]
                      ELSE make_function(thunk.symbol, << >>), a.val, a.nv, act))
    IN  Call(Ev(thunk.ev_terms, thunk.args, thunk.variables, nv))

\* the thunk mk_call hands to delay, called: the relation is looked up,
\* the argument terms are evaluated and the relation is called with them
thunk_call(thunk, nv, act) ==
    IF thunk.symbol \notin DOMAIN program
    THEN [found |-> FALSE, goal |-> fail, nv |-> nv, args |-> PyTuple(<< >>),
          variables |-> << >>, envs |-> << >>]
    ELSE LET Call(a) == Called(a.val, fn(program[thunk.symbol], a.val, a.nv, act))
         IN  Call(Ev(thunk.ev_terms, thunk.args, thunk.variables, nv))

RECURSIVE Pull(_, _, _)

\* a suspended call is resumed: thunk() is called and the goal it returns
\* is run on s
Force(thunk, s, nv, log) ==
    LET Run(c, logged) ==
            IF c.found
            THEN Pull(<<"app", c.goal, s>>, c.nv, logged)
            ELSE [out |-> <<"error", thunk.symbol>>, st |-> Done, nv |-> c.nv,
                  log |-> logged]
        Log(c) ==
            Run(c, Append(log, LookupEntry(thunk, s, c.found, c.args, c.variables,
                                           c.envs)))
    IN  Log(thunk_call(thunk, nv, Len(log) + 1))

Pull(st, nv, log) ==
    CASE st[1] = "done" -> [out |-> End, st |-> Done, nv |-> nv, log |-> log]
      [] st[1] = "app" ->
           LET g == st[2]
               s == st[3]
           IN (CASE g[1] = "fail"    -> [out |-> End, st |-> Done, nv |-> nv, log |-> log]
                 [] g[1] = "succeed" ->
                      [out |-> <<"state", s>>, st |-> Done, nv |-> nv, log |-> log]
                 [] g[1] = "eq"      ->
                      LET u == unify(g[2], g[3], s)
                      IN  IF u.ok
                          THEN [out |-> <<"state", u.s>>, st |-> Done, nv |-> nv, log |-> log]
                          ELSE [out |-> End, st |-> Done, nv |-> nv, log |-> log]
                 [] g[1] = "either"  ->
                      Pull(<<"inter", <<<<"app", g[2], s>>, <<"app", g[3], s>>>>>>, nv, log)
                 [] g[1] = "both"    ->
                      Pull(<<"bind", <<"app", g[2], s>>, g[3]>>, nv, log)
                 [] g[1] = "delay"   ->
                      [out |-> None, st |-> <<"forced", g[2], s>>, nv |-> nv, log |-> log])
      [] st[1] = "forced" -> Force(st[2], st[3], nv, log)
      [] st[1] = "inter" ->
           IF st[2] = << >>
           THEN [out |-> End, st |-> Done, nv |-> nv, log |-> log]
           ELSE LET r == Pull(st[2][1], nv, log)
                IN (CASE r.out[1] = "end"   -> Pull(<<"inter", Tail(st[2])>>, r.nv, r.log)
                      [] r.out[1] = "error" -> [r EXCEPT !.st = Done]
                      [] OTHER ->
                           [r EXCEPT !.st = <<"inter", Tail(st[2]) \o <<r.st>>>>])
      [] st[1] = "bind" ->
           LET r == Pull(st[2], nv, log)
           IN  CASE r.out[1] = "end"   -> [r EXCEPT !.st = Done]
                 [] r.out[1] = "error" -> [r EXCEPT !.st = Done]
                 [] r.out[1] = "none"  -> [r EXCEPT !.st = <<"bind", r.st, st[3]>>]
                 [] r.out[1] = "state" ->
                      Pull(<<"inter", <<<<"app", st[3], r.out[2]>>,
                                        <<"bind", r.st, st[3]>>>>>>, r.nv, r.log)

-----------------------------------------------------------------------------
(* The program the queries are run against:                                *)
(*   Member x (Cons x _).                                                  *)
(*   Member x (Cons _ xs) <- Member x xs.                                  *)
(*   Common x l m <- Member x l, Member x m.                               *)

X == <<"x">>
XS == <<"x", "s">>
A == <<"a">>
B == <<"b">>
L == <<"l">>
M == <<"m">>
Anon == <<"_">>

MemberRules ==
    << mk_fact(mk_predicate(MemberSym,
            <<mk_variable(X), mk_compound(ConsSym, <<mk_variable(X), mk_anon(Anon)>>)>>)),
       mk_rule(mk_predicate(MemberSym,
            <<mk_variable(X), mk_compound(ConsSym, <<mk_anon(Anon), mk_variable(XS)>>)>>),
            mk_calls(<<mk_call(MemberSym, <<mk_variable(X), mk_variable(XS)>>)>>)) >>

CommonRules ==
    << mk_rule(mk_predicate(CommonSym, <<mk_variable(X), mk_variable(L), mk_variable(M)>>),
            mk_calls(<<mk_call(MemberSym, <<mk_variable(X), mk_variable(L)>>),
                       mk_call(MemberSym, <<mk_variable(X), mk_variable(M)>>)>>)) >>

RulesSeq == MemberRules \o CommonRules

-----------------------------------------------------------------------------
(* The queries that are asked *)

MaxLen == 2
MaxN == 3
MaxPulls == 20

Elems == {5, 7, 8}

\* the ground list literals [e1, ..., ek], k <= MaxLen
ElemSeqs == UNION {[1..k -> Elems] : k \in 0..MaxLen}
ListLiteral(es) == mk_list([i \in DOMAIN es |-> mk_literal(PyInt(es[i]))])

MemberCall(term) == mk_call(MemberSym, <<mk_variable(X), term>>)
UndefCall == mk_call(UndefSym, <<mk_variable(X)>>)

\* what parser.query returns for the text of each query
GroundQuery(es) == mk_calls(<<MemberCall(ListLiteral(es))>>)
PairQuery(e1, e2) ==
    mk_calls(<<MemberCall(ListLiteral(e1)), MemberCall(ListLiteral(e2))>>)
CommonQuery(e1, e2) ==
    mk_calls(<<mk_call(CommonSym, <<mk_variable(X), ListLiteral(e1), ListLiteral(e2)>>)>>)
SkeletonQuery == mk_calls(<<MemberCall(mk_variable(A))>>)
OneVarQuery == mk_calls(<<MemberCall(mk_list(<<mk_variable(A)>>))>>)
TwoVarQuery == mk_calls(<<MemberCall(mk_list(<<mk_variable(A), mk_variable(B)>>))>>)
UndefFirst(es) == mk_calls(<<UndefCall, MemberCall(ListLiteral(es))>>)
UndefLast(es) == mk_calls(<<MemberCall(ListLiteral(es)), UndefCall>>)
UndefOnly == mk_calls(<<UndefCall>>)
UndefAfterOpen == mk_calls(<<MemberCall(mk_variable(A)), UndefCall>>)

GroundQueries == {GroundQuery(es) : es \in ElemSeqs}
PairQueries == {PairQuery(e1, e2) : e1 \in ElemSeqs, e2 \in ElemSeqs}
CommonQueries == {CommonQuery(es, <<7, 8>>) : es \in ElemSeqs}
OpenQueries == {SkeletonQuery, OneVarQuery, TwoVarQuery}
UndefQueries ==
    {UndefOnly, UndefAfterOpen} \cup {UndefFirst(es) : es \in ElemSeqs}
        \cup {UndefLast(es) : es \in ElemSeqs}

NoLimit == -1

\* the pairs (query, n) ask is called with
AskInputs ==
    ((GroundQueries \cup PairQueries \cup CommonQueries \cup OpenQueries
        \cup UndefQueries) \X {NoLimit})
    \cup ((GroundQueries \cup OpenQueries \cup UndefQueries) \X (0..MaxN))

\* the pairs two queries asked together are drawn from
AskInputsTogether ==
    {<<GroundQuery(<<5>>), NoLimit>>, <<SkeletonQuery, 1>>, <<OneVarQuery, NoLimit>>,
     <<UndefLast(<<5>>), NoLimit>>}

-----------------------------------------------------------------------------
(* Program.ask: a generator.  pc is where it stands:                       *)
(*   "idle"     not called                                                 *)
(*   "created"  called, not yet advanced                                   *)
(*   "pulling"  in the loop over ss, about to ask ss for its next state    *)
(*   "yielded"  suspended at the yield of a result                         *)
(*   "done"     returned; "error" an exception left it                     *)
(* results are the mappings yielded so far.  History: pulls counts the     *)
(* next() calls on the search stream, nones the sentinels among what they  *)
(* gave, taken the states; raw holds each result before its Vars were      *)
(* named; lastAt is pulls as it was when the last state was taken; own     *)
(* the identities of the Vars made for the query.                          *)

Idle ==
    [pc |-> "idle", query |-> mk_calls(<< >>), vars |-> {}, n |-> NoLimit,
     fv_map |-> << >>, ss |-> Done, results |-> << >>, raw |-> << >>,
     pulls |-> 0, nones |-> 0, taken |-> 0, lastAt |-> 0, log |-> << >>, own |-> {}]

Created(query, n) == [Idle EXCEPT !.pc = "created", !.query = query, !.n = n]

ask_begin_same_vars(q, nv) ==
    LET Loop(made, goal) ==
            [q |-> [q EXCEPT !.pc = "pulling",
                             !.vars = q.query.fvs,
                             !.fv_map = made.map,
                             !.ss = <<"app", Stamp(goal.val, 0, 0, 1), empty_s>>,
                             !.own = 0..(made.nv - 1)],
             nv |-> goal.nv]
        Goal(made) == Loop(made, Ev(q.query.ev, PyTuple(<< >>), made.map, nv))
    IN  Goal(NewVars(q.query.fvs, 0))

\* the first next(): the statements before the loop (vars is None)
ask_begin(q, nv) ==
    LET Loop(made, goal) ==
            [q |-> [q EXCEPT !.pc = "pulling",
                             !.vars = q.query.fvs,
                             !.fv_map = made.map,
                             !.ss = <<"app", Stamp(goal.val, 0, 0, 1), empty_s>>,
                             !.own = nv..(goal.nv - 1)],
             nv |-> goal.nv]
        Goal(made) == Loop(made, Ev(q.query.ev, PyTuple(<< >>), made.map, made.nv))
    IN  Goal(NewVars(q.query.fvs, nv))

islice_stop_late(q) == q.n # NoLimit /\ q.taken > q.n

\* islice(ss, 0, n) has given its n states
islice_stop(q) == q.n # NoLimit /\ q.taken >= q.n

\* one turn of the loop `for s in ss`: islice stops without asking once n
\* states were taken; otherwise the search stream is asked for its next item,
\* a None is dropped, a state is reified and yielded
ask_step(q, nv) ==
    IF islice_stop(q)
    THEN [q |-> [q EXCEPT !.pc = "done"], nv |-> nv]
    ELSE LET Item(r, q1) ==
                 [nv |-> r.nv,
                  q  |-> CASE r.out[1] = "none"  -> [q1 EXCEPT !.nones = @ + 1]
                           [] r.out[1] = "end"   -> [q1 EXCEPT !.pc = "done"]
                           [] r.out[1] = "error" -> [q1 EXCEPT !.pc = "error"]
                           [] r.out[1] = "state" ->
                                [q1 EXCEPT !.pc = "yielded",
                                           !.taken = @ + 1,
                                           !.lastAt = q.pulls + 1,
                                           !.results = Append(@,
                                               [name \in q.vars |->
                                                   reify(q.fv_map[name], r.out[2])]),
                                           !.raw = Append(@,
                                               [name \in q.vars |->
                                                   Resolve(q.fv_map[name], r.out[2])])]]
             Pulled(r) ==
                 Item(r, [q EXCEPT !.ss = r.st, !.log = r.log, !.pulls = @ + 1,
                                   !.own = @ \cup nv..(r.nv - 1)])
         IN  Pulled(Pull(q.ss, nv, q.log))

\* the same query as it runs when it is the only one ever asked: a copy that
\* takes the steps the query takes, with Var identities of its own
AloneStep(a, pc) ==
    IF a.q.pc # pc THEN a
    ELSE CASE pc = "created" -> ask_begin(a.q, a.nv)
           [] pc = "pulling" -> ask_step(a.q, a.nv)
           [] pc = "yielded" -> [a EXCEPT !.q.pc = "pulling"]

\* ask(query_string, n=n) is called
Ask(i, query, n) ==
    /\ queries[i].pc = "idle"
    /\ queries' = [queries EXCEPT ![i] = Created(query, n)]
    /\ alone' = [alone EXCEPT ![i] = [q |-> Created(query, n), nv |-> 0]]
    /\ UNCHANGED <<program, nextVar, printer>>

Begin(i) ==
    /\ queries[i].pc = "created"
    /\ LET Started(r) ==
               /\ queries' = [queries EXCEPT ![i] = r.q]
               /\ nextVar' = r.nv
       IN  Started(ask_begin(queries[i], nextVar))
    /\ alone' = [alone EXCEPT ![i] = AloneStep(@, "created")]
    /\ UNCHANGED <<program, printer>>

Advance(i) ==
    /\ queries[i].pc = "pulling"
    /\ queries[i].pulls < MaxPulls
    /\ LET Stepped(r) ==
               /\ queries' = [queries EXCEPT ![i] = r.q]
               /\ nextVar' = r.nv
       IN  Stepped(ask_step(queries[i], nextVar))
    /\ alone' = [alone EXCEPT ![i] = AloneStep(@, "pulling")]
    /\ UNCHANGED <<program, printer>>

\* the consumer asks for the next result
Resume(i) ==
    /\ queries[i].pc = "yielded"
    /\ queries' = [queries EXCEPT ![i].pc = "pulling"]
    /\ alone' = [alone EXCEPT ![i] = AloneStep(@, "yielded")]
    /\ UNCHANGED <<program, nextVar, printer>>

NoPrinter == [pc |-> "off"]

InitSlots(slots) ==
    /\ program = collect_rules(RulesSeq)
    /\ queries = [i \in slots |-> Idle]
    /\ alone = [i \in slots |-> [q |-> Idle, nv |-> 0]]
    /\ nextVar = 0
    /\ printer = NoPrinter

\* one query
Init == InitSlots({1})

Next ==
    \/ \E i \in DOMAIN queries, inp \in AskInputs : Ask(i, inp[1], inp[2])
    \/ \E i \in DOMAIN queries : Begin(i)
    \/ \E i \in DOMAIN queries : Advance(i)
    \/ \E i \in DOMAIN queries : Resume(i)

Spec == Init /\ [][Next]_vars

\* two queries against the same program, consumed in any interleaving
InitTogether == InitSlots({1, 2})

NextTogether ==
    \/ \E i \in DOMAIN queries, inp \in AskInputsTogether : Ask(i, inp[1], inp[2])
    \/ \E i \in DOMAIN queries : Begin(i)
    \/ \E i \in DOMAIN queries : Advance(i)
    \/ \E i \in DOMAIN queries : Resume(i)

SpecTogether == InitTogether /\ [][NextTogether]_vars

-----------------------------------------------------------------------------
(* The printer: is_proper_list, list_elements, unparse.  A text is a       *)
(* sequence of one-character strings.                                      *)

Digits == <<"0", "1", "2", "3", "4", "5", "6", "7", "8", "9">>

\* str(n) of an int n >= 0
RECURSIVE IntToChars(_)
IntToChars(n) ==
    IF n < 10 THEN <<Digits[n + 1]>>
    ELSE IntToChars(n \div 10) \o <<Digits[(n % 10) + 1]>>

\* str(value) of a value that is not a tuple
str(value) ==
    CASE value[1] = "int"  -> IntToChars(value[2])
      [] value[1] = "str"  -> value[2]
      [] value[1] = "rvar" -> <<"_", ".">> \o IntToChars(value[2])

IsSym(term, symbol) == IsTuple(term) /\ term[2] # << >> /\ term[2][1] = PyStr(symbol)

\* the loop follows term[2] while term[0] == 'Cons'; a Cons tuple with
\* fewer than three elements has no term[2]
RECURSIVE is_proper_list(_)
is_proper_list(term) ==
    IF IsSym(term, ConsSym)
    THEN IF Len(term[2]) < 3 THEN "IndexError" ELSE is_proper_list(term[2][3])
    ELSE IF term = PyTuple(<<PyStr(NilSym)>>) THEN "True" ELSE "False"

\* one next() on the generator list_elements, term the cell it stands at:
\* it stops, its assertion fails, or it yields term[1] and goes on to term[2]
list_elements_next(term) ==
    IF term[2][1] = PyStr(NilSym) THEN [out |-> "stop"]
    ELSE IF ~(Len(term[2]) = 3 /\ term[2][1] = PyStr(ConsSym))
    THEN [out |-> "AssertionError"]
    ELSE [out |-> "yield", value |-> term[2][2], term |-> term[2][3]]

\* all the generator yields, when it is run to its end
RECURSIVE list_elements(_)
list_elements(term) ==
    LET Rest(step) ==
            CASE step.out = "stop"           -> [ok |-> TRUE, elems |-> << >>]
              [] step.out = "AssertionError" -> [ok |-> FALSE, elems |-> << >>]
              [] step.out = "yield"          ->
                    LET Cons(rest) ==
                            [ok |-> rest.ok, elems |-> <<step.value>> \o rest.elems]
                    IN  Cons(list_elements(step.term))
    IN  Rest(list_elements_next(term))

Printed(text) == [ok |-> TRUE, text |-> text, error |-> "none"]
Raised(error) == [ok |-> FALSE, text |-> << >>, error |-> error]

RECURSIVE unparse(_)
RECURSIVE UnparseEach(_)
RECURSIVE MapUnparse(_)

\* ''.join(' ' + unparse(arg) for arg in terms)
UnparseEach(terms) ==
    IF terms = << >> THEN Printed(<< >>)
    ELSE LET Both(first, rest) ==
                 IF ~first.ok THEN first
                 ELSE IF ~rest.ok THEN rest
                 ELSE Printed(<<" ">> \o first.text \o rest.text)
             Rest(first) ==
                 IF ~first.ok THEN first ELSE Both(first, UnparseEach(Tail(terms)))
         IN  Rest(unparse(terms[1]))

\* sep.join(texts)
RECURSIVE Join(_, _)
Join(texts, sep) ==
    IF texts = << >> THEN << >>
    ELSE IF Len(texts) = 1 THEN texts[1]
    ELSE texts[1] \o sep \o Join(Tail(texts), sep)

\* map(unparse, list_elements(term)): map takes an element from the
\* generator and unparses it before it asks for the next, so a failure in
\* an element comes before the assertion of a later cell
MapUnparse(term) ==
    LET Texts(first, rest) ==
            IF ~rest.ok THEN rest
            ELSE [ok |-> TRUE, texts |-> <<first.text>> \o rest.texts, error |-> "none"]
        Rest(first, next) ==
            IF ~first.ok THEN [ok |-> FALSE, texts |-> << >>, error |-> first.error]
            ELSE Texts(first, MapUnparse(next))
        Step(step) ==
            CASE step.out = "stop" -> [ok |-> TRUE, texts |-> << >>, error |-> "none"]
              [] step.out = "AssertionError" ->
                    [ok |-> FALSE, texts |-> << >>, error |-> "AssertionError"]
              [] step.out = "yield" -> Rest(unparse(step.value), step.term)
    IN  Step(list_elements_next(term))

unparse(term) ==
    IF ~IsTuple(term) THEN Printed(str(term))
    ELSE LET proper == is_proper_list(term)
         IN  CASE proper = "IndexError" -> Raised("IndexError")
               [] proper = "True" ->
                    LET Bracketed(elements) ==
                            IF ~elements.ok THEN Raised(elements.error)
                            ELSE Printed(<<"[">> \o Join(elements.texts, <<",", " ">>)
                                         \o <<"]">>)
                    IN  Bracketed(MapUnparse(term))
               [] proper = "False" ->
                    IF Len(term[2]) = 1 THEN Printed(str(term[2][1]))
                    ELSE LET inside == UnparseEach(Tail(term[2]))
                         IN  IF ~inside.ok THEN inside
                             ELSE Printed(<<"(">> \o str(term[2][1]) \o inside.text \o <<")">>)

-----------------------------------------------------------------------------
(* The term grammar: a parsing expression grammar on the text.  Every      *)
(* literal and regex of a rule written with ':' is followed by optional    *)
(* whitespace (FNORD); a regex gives the groups it captures.               *)

UpperChars == {"A", "B", "C", "D", "E", "F", "G", "H", "I", "J", "K", "L", "M",
               "N", "O", "P", "Q", "R", "S", "T", "U", "V", "W", "X", "Y", "Z"}
LowerChars == {"a", "b", "c", "d", "e", "f", "g", "h", "i", "j", "k", "l", "m",
               "n", "o", "p", "q", "r", "s", "t", "u", "v", "w", "x", "y", "z"}
DigitChars == {Digits[d] : d \in DOMAIN Digits}
WordChars == UpperChars \cup LowerChars \cup DigitChars \cup {"_"}

At(text, i, chars) == i <= Len(text) /\ text[i] \in chars

\* the end of the longest run of chars from i
RECURSIVE RunEnd(_, _, _)
RunEnd(text, i, chars) == IF At(text, i, chars) THEN RunEnd(text, i + 1, chars) ELSE i

\* \s: [ \t\n\r\f\v], the last string holding the vertical tab
SpaceChars == {" ", "\t", "\n", "\r", "\f", ""}

\* the end of .* from i: the next newline, or the end of the text
RECURSIVE LineEnd(_, _)
LineEnd(text, i) ==
    IF i <= Len(text) /\ text[i] # "\n" THEN LineEnd(text, i + 1) ELSE i

\* whitespace?: /(?:\s|#.*)+/, a comment running to the end of its line
RECURSIVE FNORD(_, _)
FNORD(text, i) ==
    IF At(text, i, SpaceChars) THEN FNORD(text, i + 1)
    ELSE IF At(text, i, {"#"}) THEN FNORD(text, LineEnd(text, i + 1))
    ELSE i

RECURSIVE CharsToInt(_)
CharsToInt(chars) ==
    IF chars = << >> THEN 0
    ELSE 10 * CharsToInt(SubSeq(chars, 1, Len(chars) - 1))
         + (CHOOSE d \in 0..9 : Digits[d + 1] = chars[Len(chars)])

NoParse == [ok |-> FALSE, pos |-> 0, val |-> << >>]
Parsed(pos, val) == [ok |-> TRUE, pos |-> pos, val |-> val]

\* symbol: /([A-Z]\w*)/
g_symbol(text, i) ==
    IF At(text, i, UpperChars)
    THEN LET j == RunEnd(text, i + 1, WordChars)
         IN  Parsed(FNORD(text, j), SubSeq(text, i, j - 1))
    ELSE NoParse

\* variable: /([a-z]\w*)/
g_variable(text, i) ==
    IF At(text, i, LowerChars)
    THEN LET j == RunEnd(text, i + 1, WordChars)
         IN  Parsed(FNORD(text, j), SubSeq(text, i, j - 1))
    ELSE NoParse

\* anonvar: /(_\w*)/
g_anonvar(text, i) ==
    IF At(text, i, {"_"})
    THEN LET j == RunEnd(text, i + 1, WordChars)
         IN  Parsed(FNORD(text, j), SubSeq(text, i, j - 1))
    ELSE NoParse

\* number: /(\d+)/ :int
g_number(text, i) ==
    IF At(text, i, DigitChars)
    THEN LET j == RunEnd(text, i + 1, DigitChars)
         IN  Parsed(FNORD(text, j), PyInt(CharsToInt(SubSeq(text, i, j - 1))))
    ELSE NoParse

\* the end of the longest run of characters other than the quote
RECURSIVE QcharsEnd(_, _)
QcharsEnd(text, i) ==
    IF i <= Len(text) /\ text[i] # "\"" THEN QcharsEnd(text, i + 1) ELSE i

\* string: '"' qchar* '"' FNORD :join, qchar /[^"]/ capturing no group, so
\* that join is given nothing
g_string(text, i) ==
    IF At(text, i, {"\""})
    THEN LET j == QcharsEnd(text, i + 1)
         IN  IF At(text, j, {"\""}) THEN Parsed(FNORD(text, j + 1), PyStr(<< >>))
             ELSE NoParse
    ELSE NoParse

RECURSIVE g_term(_, _)
RECURSIVE TermStar(_, _)
RECURSIVE TermSepStar(_, _)

\* term*: [pos, vals]
TermStar(text, i) ==
    LET first == g_term(text, i)
    IN  IF ~first.ok THEN [pos |-> i, vals |-> << >>]
        ELSE LET rest == TermStar(text, first.pos)
             IN  [pos |-> rest.pos, vals |-> <<first.val>> \o rest.vals]

\* (',' term)*
TermSepStar(text, i) ==
    IF At(text, i, {","})
    THEN LET next == g_term(text, FNORD(text, i + 1))
         IN  IF ~next.ok THEN [pos |-> i, vals |-> << >>]
             ELSE LET rest == TermSepStar(text, next.pos)
                  IN  [pos |-> rest.pos, vals |-> <<next.val>> \o rest.vals]
    ELSE [pos |-> i, vals |-> << >>]

\* '(' symbol term* ')' :mk_compound
Compound(text, i) ==
    IF At(text, i, {"("})
    THEN LET sym == g_symbol(text, FNORD(text, i + 1))
         IN  IF ~sym.ok THEN NoParse
             ELSE LET args == TermStar(text, sym.pos)
                  IN  IF At(text, args.pos, {")"})
                      THEN Parsed(FNORD(text, args.pos + 1), mk_compound(sym.val, args.vals))
                      ELSE NoParse
    ELSE NoParse

\* '[' term ** ',' ']' :mk_list
List(text, i) ==
    IF At(text, i, {"["})
    THEN LET first == g_term(text, FNORD(text, i + 1))
             more  == IF first.ok THEN TermSepStar(text, first.pos)
                      ELSE [pos |-> FNORD(text, i + 1), vals |-> << >>]
             elems == IF first.ok THEN <<first.val>> \o more.vals ELSE << >>
         IN  IF At(text, more.pos, {"]"})
             THEN Parsed(FNORD(text, more.pos + 1), mk_list(elems))
             ELSE NoParse
    ELSE NoParse

g_term(text, i) ==
    LET compound == Compound(text, i)
        list     == List(text, i)
        sym      == g_symbol(text, i)
        var      == g_variable(text, i)
        anon     == g_anonvar(text, i)
        num      == g_number(text, i)
        lit      == g_string(text, i)
    IN  CASE compound.ok -> compound
          [] ~compound.ok /\ list.ok -> list
          [] ~compound.ok /\ ~list.ok /\ sym.ok ->
                Parsed(sym.pos, mk_compound(sym.val, << >>))
          [] ~compound.ok /\ ~list.ok /\ ~sym.ok /\ var.ok ->
                Parsed(var.pos, mk_variable(var.val))
          [] ~compound.ok /\ ~list.ok /\ ~sym.ok /\ ~var.ok /\ anon.ok ->
                Parsed(anon.pos, mk_anon(anon.val))
          [] ~compound.ok /\ ~list.ok /\ ~sym.ok /\ ~var.ok /\ ~anon.ok /\ num.ok ->
                Parsed(num.pos, mk_literal(num.val))
          [] OTHER -> IF lit.ok THEN Parsed(lit.pos, mk_literal(lit.val)) ELSE NoParse

\* parser.term(text): the rule term has no :end, so it matches a term at
\* the start of the text, whatever follows it
parse_term(text) == g_term(text, 1)

-----------------------------------------------------------------------------
(* Printing a term of a result (Program.q), and reading the text back as   *)
(* a term literal                                                          *)

MaxArgs == 3

FooSym == <<"F", "o", "o">>

NilTerm == PyTuple(<<PyStr(NilSym)>>)

\* what evaluating a literal or an atom gives; a string literal gives ''
Leaves == {PyInt(5), PyInt(12), PyStr(<< >>), NilTerm, PyTuple(<<PyStr(FooSym)>>)}

ArgSeqs(S) == UNION {[1..k -> S] : k \in 1..MaxArgs}

\* '(' symbol term* ')' with the reserved symbols as any other
CompoundsOf(symbols, S) ==
    {PyTuple(<<PyStr(sym)>> \o args) : sym \in symbols, args \in ArgSeqs(S)}

Cells == CompoundsOf({ConsSym}, Leaves)

Terms ==
    Leaves
    \cup CompoundsOf({ConsSym, NilSym, FooSym}, Leaves)
    \cup {PyTuple(<<PyStr(ConsSym), h, t>>) : h \in Leaves, t \in Cells}
    \cup {PyTuple(<<PyStr(FooSym), t>>) : t \in Cells}

NoOutput == Raised("none")

Printing(t) ==
    [pc |-> "term", term |-> t, out |-> NoOutput, parsed |-> NoParse, value |-> << >>]

\* unparse(result[name])
Unparse ==
    /\ printer.pc = "term"
    /\ printer' = [printer EXCEPT !.pc = "printed", !.out = unparse(printer.term)]
    /\ UNCHANGED <<program, queries, nextVar, alone>>

\* parser.term(text)
ParseTerm ==
    /\ printer.pc = "printed"
    /\ printer.out.ok
    /\ printer' = [printer EXCEPT !.pc = "parsed", !.parsed = parse_term(printer.out.text)]
    /\ UNCHANGED <<program, queries, nextVar, alone>>

\* ev(program, (), variables) of the parsed term
Evaluate ==
    /\ printer.pc = "parsed"
    /\ printer.parsed.ok
    /\ LET made == NewVars(printer.parsed.val.fvs, nextVar)
           r    == Ev(printer.parsed.val.ev, << >>, made.map, made.nv)
       IN  /\ printer' = [printer EXCEPT !.pc = "evaluated", !.value = r.val]
           /\ nextVar' = r.nv
    /\ UNCHANGED <<program, queries, alone>>

InitPrint ==
    /\ program = collect_rules(RulesSeq)
    /\ queries = [i \in {1} |-> Idle]
    /\ alone = [i \in {1} |-> [q |-> Idle, nv |-> 0]]
    /\ nextVar = 0
    /\ printer \in {Printing(t) : t \in Terms}

NextPrint == Unparse \/ ParseTerm \/ Evaluate

SpecPrint == InitPrint /\ [][NextPrint]_vars

-----------------------------------------------------------------------------
(* Properties *)

Min(a, b) == IF a <= b THEN a ELSE b

\* C1: with the two Member clauses, the query `Member x [e1, ..., ek]` on a
\* ground list yields exactly k results through ask, the i-th being {x: ei},
\* in list order, and no error (none for the empty list); under a limit n
\* the first n of them
C1_MemberOfGroundList ==
    \A i \in DOMAIN queries, es \in ElemSeqs :
        LET q == queries[i]
        IN  q.query = GroundQuery(es) =>
              /\ q.pc # "error"
              /\ Len(q.results) <= Len(es)
              /\ \A k \in DOMAIN q.results : q.results[k] = (X :> PyInt(es[k]))
              /\ q.pc = "done" =>
                   Len(q.results) = IF q.n = NoLimit THEN Len(es) ELSE Min(q.n, Len(es))

C1_Witness ==
    \E i \in DOMAIN queries :
        /\ queries[i].query = GroundQuery(<<7, 5>>)
        /\ queries[i].n = NoLimit
        /\ queries[i].pc = "done"
        /\ queries[i].results = <<(X :> PyInt(7)), (X :> PyInt(5))>>

\* how often {x: e} is among the results, and how many pairs of positions
\* (i, j) have e1[i] = e2[j] = e
Count(results, e) == Cardinality({k \in DOMAIN results : results[k] = (X :> PyInt(e))})
Matches(e1, e2, e) ==
    Cardinality({p \in (DOMAIN e1) \X (DOMAIN e2) : e1[p[1]] = e /\ e2[p[2]] = e})

\* C2: the query `Member x L1, Member x L2` on ground lists yields one result
\* {x: e} for each pair of positions (i, j) with L1[i] = L2[j] = e, and no
\* other result
C2_Conjunction ==
    \A i \in DOMAIN queries, e1 \in ElemSeqs, e2 \in ElemSeqs :
        LET q == queries[i]
        IN  q.query = PairQuery(e1, e2) =>
              /\ q.pc # "error"
              /\ \A k \in DOMAIN q.results : \E e \in Elems : q.results[k] = (X :> PyInt(e))
              /\ \A e \in Elems : Count(q.results, e) <= Matches(e1, e2, e)
              /\ q.pc = "done" => \A e \in Elems : Count(q.results, e) = Matches(e1, e2, e)

C2_Witness ==
    \E i \in DOMAIN queries :
        /\ queries[i].query = PairQuery(<<5, 7>>, <<7, 8>>)
        /\ queries[i].pc = "done"
        /\ queries[i].results = <<(X :> PyInt(7))>>

\* a list of k Cons cells whose elements and tail are unresolved, as reify
\* names them
RECURSIVE SkeletonFrom(_, _)
SkeletonFrom(j, k) ==
    IF j = k THEN <<"rvar", k>>
    ELSE PyTuple(<<PyStr(ConsSym), <<"rvar", j>>, SkeletonFrom(j + 1, k)>>)
Skeleton(k) == SkeletonFrom(0, k)

\* C3: ask with limit n on `Member x a` ends after yielding exactly n
\* results, the k-th binding a to a skeleton of k Cons cells; the sentinels
\* are neither yielded nor counted toward n, and once the n-th state was
\* taken the search stream is not advanced again
C3_LimitOnInfiniteSearch ==
    \A i \in DOMAIN queries :
        LET q == queries[i]
        IN  q.query = SkeletonQuery /\ q.n # NoLimit =>
              /\ q.pc # "error"
              /\ Len(q.results) = q.taken
              /\ q.taken <= q.n
              /\ q.pulls = q.nones + q.taken
              /\ \A k \in DOMAIN q.results : q.results[k][A] = Skeleton(k)
              /\ q.taken = q.n => q.pulls = q.lastAt
              /\ q.pc = "done" => Len(q.results) = q.n
              /\ q.pc = "pulling" => q.pulls < MaxPulls

C3_Witness ==
    \E i \in DOMAIN queries :
        /\ queries[i].query = SkeletonQuery
        /\ queries[i].n = 3
        /\ queries[i].pc = "done"
        /\ Len(queries[i].results) = 3
        /\ queries[i].nones > 0

-----------------------------------------------------------------------------
(* What the program means, for stating when a call has succeeded on a      *)
(* binding state: the solutions of a call from s by resolution against the *)
(* clauses, to a bounded depth.  The Vars a derivation makes take          *)
(* identities from nextVar on, which no binding state of a query holds.    *)

SolveDepth == MaxLen + 3

ClausesOf(symbol) == program[symbol].ev[2]
CallsOf(ev_calls) == ev_calls[2][2]

RECURSIVE Solve(_, _, _, _, _)
RECURSIVE SolveCalls(_, _, _, _)

SolveCalls(calls, variables, states, depth) ==
    IF calls = << >> THEN states
    ELSE SolveCalls(Tail(calls), variables,
            UNION {LET a == Ev(calls[1][3], PyTuple(<< >>), variables, st.fresh)
                   IN  Solve(calls[1][2], a.val, st.s, a.nv, depth) : st \in states},
            depth)

Solve(symbol, args, s, fresh, depth) ==
    IF depth = 0 \/ symbol \notin DOMAIN program THEN {}
    ELSE UNION {LET made == NewVars(program[symbol].fvs, fresh)
                    head == Ev(ClausesOf(symbol)[c][2], args, made.map, made.nv)
                    u    == unify(head.val, args, s)
                IN  IF u.ok
                    THEN SolveCalls(CallsOf(ClausesOf(symbol)[c][3]), made.map,
                                    {[s |-> u.s, fresh |-> head.nv]}, depth - 1)
                    ELSE {} : c \in DOMAIN ClausesOf(symbol)}

\* s binds no Var that a query made beyond what s0 binds
BindsOnlyNew(s, s0) == \A id \in DOMAIN s \ DOMAIN s0 : id >= nextVar

\* the calls have all succeeded on s: they have a solution from s that
\* binds nothing more
Succeeded(calls, variables, s) ==
    \E st \in SolveCalls(calls, variables, {[s |-> s, fresh |-> nextVar]}, SolveDepth) :
        BindsOnlyNew(st.s, s)

\* the head of clause c of the caller unifies with the caller's arguments
\* on s as it is
HeadUnified(caller, c, s) ==
    LET head == Ev(ClausesOf(caller.symbol)[c][2], caller.args, caller.variables, nextVar)
        u    == unify(head.val, caller.args, s)
    IN  u.ok /\ BindsOnlyNew(u.s, s)

\* C9: a relation is looked up and called only when a suspended call is
\* resumed, after the sentinel it gave, never while a goal is built; the
\* i-th call of a query only on a state on which calls 1..i-1 have
\* succeeded; the i-th body call of a clause only on a state on which the
\* caller's arguments unify with that clause's head and body calls 1..i-1
\* have succeeded
C9_CallsAreForcedInOrder ==
    \A i \in DOMAIN queries :
        LET q == queries[i]
        IN  /\ Len(q.log) <= q.nones
            /\ \A k \in DOMAIN q.log :
                 LET e == q.log[k]
                 IN  IF e.site.act = 0
                     THEN Succeeded(SubSeq(CallsOf(q.query.ev), 1, e.site.idx - 1),
                                    q.fv_map, e.s)
                     ELSE LET caller == q.log[e.site.act]
                              rule   == ClausesOf(caller.symbol)[e.site.clause]
                          IN  /\ e.site.act < k
                              /\ HeadUnified(caller, e.site.clause, e.s)
                              /\ Succeeded(SubSeq(CallsOf(rule[3]), 1, e.site.idx - 1),
                                           caller.variables, e.s)

\* the second body call of Common was looked up, and so was a body call of
\* Member
C9_Witness ==
    \E i \in DOMAIN queries :
        /\ \E k \in DOMAIN queries[i].log :
             queries[i].log[k].site.act > 0 /\ queries[i].log[k].site.idx = 2
        /\ \E k \in DOMAIN queries[i].log :
             queries[i].log[k].site.act > 0 /\ queries[i].log[k].site.clause = 2

-----------------------------------------------------------------------------

HasUndefined(query) ==
    \E j \in DOMAIN CallsOf(query.ev) : CallsOf(query.ev)[j][2] \notin DOMAIN program

FirstUndefined(query) ==
    CHOOSE j \in DOMAIN CallsOf(query.ev) :
        /\ CallsOf(query.ev)[j][2] \notin DOMAIN program
        /\ \A k \in 1..(j - 1) : CallsOf(query.ev)[k][2] \in DOMAIN program

\* the calls before the first undefined one have a solution
ReachesUndefined(q) ==
    SolveCalls(SubSeq(CallsOf(q.query.ev), 1, FirstUndefined(q.query) - 1), q.fv_map,
               {[s |-> empty_s, fresh |-> nextVar]}, SolveDepth) # {}

\* C5 as stated: a query with a call to an undefined predicate never
\* completes silently (checked without a limit)
C5_AlwaysRaises ==
    \A i \in DOMAIN queries :
        HasUndefined(queries[i].query) /\ queries[i].n = NoLimit =>
            queries[i].results = << >> /\ queries[i].pc # "done"

\* C5 amended: a query with a call to an undefined predicate yields no
\* result; it ends in the error only when the calls before the first
\* undefined one have a solution, so that a state reaches it, and it
\* completes with no result and no error only when they have none or the
\* limit is 0
C5_RaisesWhenReached ==
    \A i \in DOMAIN queries :
        LET q == queries[i]
        IN  HasUndefined(q.query) =>
              /\ q.results = << >>
              /\ q.pc = "error" =>
                   /\ ReachesUndefined(q)
                   /\ q.n # 0
                   /\ ~q.log[Len(q.log)].found
                   /\ q.log[Len(q.log)].site = [act |-> 0, clause |-> 0,
                                                idx |-> FirstUndefined(q.query)]
              /\ q.pc = "done" => q.n = 0 \/ ~ReachesUndefined(q)
              /\ q.pc = "pulling" /\ q.n # 0 /\ ~ReachesUndefined(q) =>
                   q.pulls < MaxPulls

\* the error was raised for `Member x [8], Undef x`, after the lookup of
\* Member and before any result
C5_Witness ==
    \E i \in DOMAIN queries :
        /\ queries[i].query = UndefLast(<<8>>)
        /\ queries[i].n = NoLimit
        /\ queries[i].pc = "error"
        /\ Len(queries[i].log) > 1

-----------------------------------------------------------------------------

\* the pairs (identity, number) of the unresolved Vars of a result value
\* and the names shown for them
RECURSIVE Shown(_, _)
Shown(raw, named) ==
    CASE IsVar(raw)   -> {<<raw[2], named[2]>>}
      [] IsTuple(raw) -> UNION {Shown(raw[2][j], named[2][j]) : j \in DOMAIN raw[2]}
      [] OTHER        -> {}

ShownIn(q, k) == UNION {Shown(q.raw[k][name], q.results[k][name]) : name \in q.vars}

\* C4: within one result, two reported occurrences of unresolved Vars carry
\* the same name exactly when they are the same Var
C4_CanonicalNames ==
    \A i \in DOMAIN queries : \A k \in DOMAIN queries[i].results :
        \A p1 \in ShownIn(queries[i], k), p2 \in ShownIn(queries[i], k) :
            (p1[1] = p2[1]) <=> (p1[2] = p2[2])

-----------------------------------------------------------------------------

RulesOf(symbol) == SelectSeq(RulesSeq, LAMBDA r : r.symbol = symbol)

Range(f) == {f[x] : x \in DOMAIN f}

\* C8: on every call of a relation each clause gets Vars of its own: two
\* clauses that mention the same name never get the same Var for it, and
\* two calls never share a Var
C8_FreshEnvironmentPerClause ==
    \A i \in DOMAIN queries :
        LET log == queries[i].log
        IN  /\ \A k \in DOMAIN log : \A c1 \in DOMAIN log[k].envs, c2 \in DOMAIN log[k].envs :
                 c1 # c2 =>
                   \A name \in RulesOf(log[k].symbol)[c1].fvs \cap RulesOf(log[k].symbol)[c2].fvs :
                       log[k].envs[c1][name] # log[k].envs[c2][name]
            /\ \A k1 \in DOMAIN log, k2 \in DOMAIN log :
                 k1 # k2 => Range(log[k1].variables) \cap Range(log[k2].variables) = {}

-----------------------------------------------------------------------------

\* C6: queries asked of one program, consumed in any interleaving, leave the
\* program as it was built, each has Vars of its own, and each yields what
\* it yields when it is the only query ever asked
C6_QueriesAreIsolated ==
    /\ program = collect_rules(RulesSeq)
    /\ \A i \in DOMAIN queries :
         /\ queries[i].results = alone[i].q.results
         /\ queries[i].pc = alone[i].q.pc
         /\ Range(queries[i].fv_map) \subseteq {PyVar(id) : id \in queries[i].own}
         /\ \A k \in DOMAIN queries[i].log :
              Range(queries[i].log[k].variables) \subseteq {PyVar(id) : id \in queries[i].own}
         /\ \A j \in DOMAIN queries \ {i} : queries[i].own \cap queries[j].own = {}

\* both queries have yielded a result, the second begun while the first was
\* part-way
C6_Witness ==
    /\ DOMAIN queries = {1, 2}
    /\ queries[1].query = SkeletonQuery /\ queries[1].results # << >>
    /\ queries[2].query = OneVarQuery /\ queries[2].results # << >>
    /\ \E id \in queries[2].own : \E id1 \in queries[1].own : id1 > id

\* C10: printing a term never fails: is_proper_list returns without an
\* IndexError and the assertion of list_elements holds at every cell.
C10_PrintingNeverFails ==
    printer.pc = "printed" => printer.out.ok

\* C7: when the text of a term is accepted by the term grammar, evaluating
\* the parsed term gives a term equal to the one printed.
C7_RoundTrip ==
    printer.pc = "evaluated" => printer.value = printer.term

====
